---- MODULE Spec2Model ----
(***************************************************************************)
(* Model of the two ComfyUI nodes of nodes.py: AudioToMidi                 *)
(* (convert_audio_to_midi) and SaveMidi (save_midi).                       *)
(*                                                                         *)
(* Numbers.  A Python number x is represented by the integer 2*x, so that  *)
(* values with a fractional part of one half (60.5, -0.5) exist and int()  *)
(* is a real truncation.  Py(n) is the representation of the literal n.    *)
(*                                                                         *)
(* External collaborators (basic_pitch.predict, midiutil.MIDIFile, the     *)
(* file system) are modelled by their outcome: either they raise, or they  *)
(* return / change the disk as documented.                                 *)
(***************************************************************************)
EXTENDS Integers, Sequences, FiniteSets, TLC

VARIABLES conv, disk, diskBefore, save, prev, nCalls

vars == <<conv, disk, diskBefore, save, prev, nCalls>>

\* ---------------------------------------------------------------- bounds
MaxInstruments == 2
MaxNotes == 2
MaxEntries == 2
MaxCalls == 2

\* ------------------------------------------------------- number helpers
Py(n) == 2 * n

Min(a, b) == IF a <= b THEN a ELSE b
Max(a, b) == IF a >= b THEN a ELSE b

\* floor instead of truncation toward zero
IntOfFloor(v) == 2 * (v \div 2)

\* int(x): truncation toward zero
IntOf(v) == IF v >= 0 THEN 2 * (v \div 2) ELSE 0 - 2 * ((0 - v) \div 2)

\* float(x): the same numeric value
FloatOf(v) == v

SeqsUpTo(S, n) == UNION { [1..k -> S] : k \in 0..n }

\* =================================================================
\* AudioToMidi
\* =================================================================

\* Notes as the inference model may return them (pretty_midi.Note objects):
\* in range, far out of range, negative, fractional, equal start times,
\* end before start.
NotePool ==
  { [pitch |-> Py(60),  start |-> Py(1), end |-> Py(2), velocity |-> Py(100)],
    [pitch |-> Py(200), start |-> Py(0), end |-> Py(1), velocity |-> Py(300)],
    [pitch |-> 0 - 1,   start |-> Py(1), end |-> Py(0), velocity |-> 123] }

ModelOutputs == SeqsUpTo(SeqsUpTo(NotePool, MaxNotes), MaxInstruments)

\* line 40 with the check removed
PathMissingNever(exists) == FALSE

\* line 40: not os.path.exists(audio_path)
PathMissing(exists) == ~exists

\* lines 45-49: predict() either raises or returns midi_data; on a path
\* that does not exist it cannot load the audio and raises.
Predict(exists, outcome) ==
  IF ~exists THEN [raised |-> TRUE, instruments |-> <<>>] ELSE outcome

\* lines 58-63: the tuple appended for one note, without the int() truncation
NoteEventFloor(note) ==
  <<IntOfFloor(note.pitch), FloatOf(note.start), FloatOf(note.end),
    IntOfFloor(note.velocity)>>

\* lines 58-63: the tuple appended for one note
NoteEvent(note) ==
  <<IntOf(note.pitch), FloatOf(note.start), FloatOf(note.end),
    IntOf(note.velocity)>>

\* lines 57-63: inner loop over instrument.notes
RECURSIVE NotesOf(_)
NotesOf(notes) ==
  IF notes = <<>> THEN <<>>
  ELSE <<NoteEvent(Head(notes))>> \o NotesOf(Tail(notes))

\* lines 52-63: outer loop over midi_data.instruments
RECURSIVE Flatten(_)
Flatten(instruments) ==
  IF instruments = <<>> THEN <<>>
  ELSE NotesOf(Head(instruments)) \o Flatten(Tail(instruments))

\* insertion that puts x before the elements with an equal key
RECURSIVE InsertBeforeEqual(_, _)
InsertBeforeEqual(x, s) ==
  IF s = <<>> THEN <<x>>
  ELSE IF s[Len(s)][2] < x[2] THEN Append(s, x)
  ELSE Append(InsertBeforeEqual(x, SubSeq(s, 1, Len(s) - 1)), s[Len(s)])

\* x placed after every element whose key x[1] (start time, the second
\* field) is <= its own: the step of a stable sort
RECURSIVE InsertByStart(_, _)
InsertByStart(x, s) ==
  IF s = <<>> THEN <<x>>
  ELSE IF s[Len(s)][2] <= x[2] THEN Append(s, x)
  ELSE Append(InsertByStart(x, SubSeq(s, 1, Len(s) - 1)), s[Len(s)])

\* the list left as appended
SortByStartNoSort(s) == s

\* line 66: processed_midi_data.sort(key=lambda x: x[1]); list.sort is stable
RECURSIVE SortByStart(_)
SortByStart(s) ==
  IF s = <<>> THEN <<>>
  ELSE InsertByStart(s[Len(s)], SortByStart(SubSeq(s, 1, Len(s) - 1)))

\* lines 36-71
convert_audio_to_midi(exists, outcome) ==
  IF PathMissing(exists)
  THEN [status |-> "ValueError", error |-> "Audio file not found",
        value |-> <<>>, calls |-> <<>>]
  ELSE LET p == Predict(exists, outcome) IN
       IF p.raised
       THEN [status |-> "RuntimeError",
             error |-> "Error during audio-to-MIDI conversion",
             value |-> <<>>, calls |-> <<"predict">>]
       ELSE [status |-> "ok", error |-> "",
             value |-> SortByStart(Flatten(p.instruments)),
             calls |-> <<"predict">>]

NoConv ==
  [audio_exists |-> FALSE, raised |-> FALSE, instruments |-> <<>>,
   status |-> "none", error |-> "", value |-> <<>>, calls |-> <<>>]

\* The host executes the AudioToMidi node.
ConvertAudioToMidi ==
  /\ conv.status = "none"
  /\ \E exists \in BOOLEAN, raised \in BOOLEAN, ins \in ModelOutputs :
       /\ raised => ins = <<>>
       /\ LET r == convert_audio_to_midi(exists,
                      [raised |-> raised, instruments |-> ins])
          IN conv' = [audio_exists |-> exists, raised |-> raised,
                      instruments |-> ins, status |-> r.status,
                      error |-> r.error, value |-> r.value,
                      calls |-> r.calls]
  /\ UNCHANGED <<disk, diskBefore, save, prev, nCalls>>

\* =================================================================
\* SaveMidi
\* =================================================================

\* Entries of the note list handed to the node: the 4-tuple of the spec's
\* example, out-of-range and fractional values, and tuples of 3 and 5 fields.
EntryPool ==
  { <<Py(60), Py(0), Py(1), Py(100)>>,
    <<Py(200), Py(1), Py(0), 0 - Py(5)>>,
    <<123, Py(0), Py(2), 255>>,
    <<Py(60), Py(0), Py(1)>>,
    <<Py(60), Py(0), Py(1), Py(100), Py(0)>> }

MidiLists == SeqsUpTo(EntryPool, MaxEntries)

\* tempo input: default and minimum of INPUT_TYPES
TempoDefault == 120
TempoMin == 20
Tempos == {TempoDefault, TempoMin}

\* The external call that raises for a reason of its own during one
\* execution (library error, permission denied, disk full), or "none".
Faults ==
  {"none", "MIDIFile", "addTrackName", "addTempo", "addNote",
   "makedirs", "open", "writeFile"}

\* The part of the disk the call can touch: output_path (absent, a
\* directory, or a regular file in its place) and output_path/file_name
\* (absent, a regular file with its content, or a directory in its place).
OldContent == <<[kind |-> "old"]>>

DiskStates ==
  { [dir |-> "absent", target |-> "absent", content |-> <<>>],
    [dir |-> "file",   target |-> "absent", content |-> <<>>],
    [dir |-> "dir",    target |-> "absent", content |-> <<>>],
    [dir |-> "dir",    target |-> "dir",    content |-> <<>>],
    [dir |-> "dir",    target |-> "file",   content |-> OldContent] }

\* line 105 with the check removed
NoMidiDataNever(midi_data) == FALSE

\* line 105: not midi_data
NoMidiData(midi_data) == Len(midi_data) = 0

\* line 120 skipping only the entries that are too short
SkipNoteShort(note) == Len(note) < 4

\* line 120: len(note) != 4
SkipNote(note) == Len(note) # 4

\* clamp without the upper limit
ClampMidiNoUpper(v) == Max(Py(0), IntOf(v))

\* lines 127-128: max(0, min(127, int(x)))
ClampMidi(v) == Max(Py(0), Min(Py(127), IntOf(v)))

\* lines 123-137: the addNote call made for one well-formed entry
NoteOf(note) ==
  [kind |-> "note", track |-> 0, channel |-> 0,
   pitch |-> ClampMidi(note[1]), time |-> note[2],
   duration |-> note[3] - note[2], volume |-> ClampMidi(note[4])]

\* lines 119-137: the addNote calls of the loop, in order
RECURSIVE AddNotes(_)
AddNotes(midi_data) ==
  IF midi_data = <<>> THEN <<>>
  ELSE IF SkipNote(Head(midi_data)) THEN AddNotes(Tail(midi_data))
  ELSE <<NoteOf(Head(midi_data))>> \o AddNotes(Tail(midi_data))

\* lines 115-116: addTrackName and addTempo at time 0 on track 0
Header(tempo) ==
  << [kind |-> "trackName", track |-> 0, time |-> 0, name |-> "Track 1"],
     [kind |-> "tempo", track |-> 0, time |-> 0, tempo |-> tempo] >>

\* lines 109-137: the calls made on the MIDI writer when none of them raises
BuildCalls(n) ==
  <<"MIDIFile", "addTrackName", "addTempo">> \o [i \in 1..n |-> "addNote"]

FirstIndex(s, x) == CHOOSE i \in 1..Len(s) :
                      s[i] = x /\ \A j \in 1..(i - 1) : s[j] # x

\* line 140: os.makedirs(output_path, exist_ok=True)
MakeDirs(d, fault) ==
  IF fault = "makedirs" \/ d.dir = "file"
  THEN [raised |-> TRUE, disk |-> d]
  ELSE [raised |-> FALSE, disk |-> [d EXCEPT !.dir = "dir"]]

\* open in append mode
OpenAB(d, fault) ==
  IF fault = "open" \/ d.target = "dir"
  THEN [raised |-> TRUE, disk |-> d]
  ELSE [raised |-> FALSE, disk |-> [d EXCEPT !.target = "file"]]

\* line 145: open(output_file, "wb") creates or truncates the file
OpenWB(d, fault) ==
  IF fault = "open" \/ d.target = "dir"
  THEN [raised |-> TRUE, disk |-> d]
  ELSE [raised |-> FALSE,
        disk |-> [d EXCEPT !.target = "file", !.content = <<>>]]

\* line 146: midi.writeFile(f) writes the events at the end of what the
\* file holds; when it raises, only the first `written` events got there.
WriteFile(d, events, fault, written) ==
  IF fault = "writeFile"
  THEN [raised |-> TRUE,
        disk |-> [d EXCEPT !.content =
                    @ \o SubSeq(events, 1, Min(written, Len(events) - 1))]]
  ELSE [raised |-> FALSE, disk |-> [d EXCEPT !.content = @ \o events]]

SaveOutcome(status, error, raisedBy, calls, track, d) ==
  [status |-> status, error |-> error, raisedBy |-> raisedBy,
   calls |-> calls, track |-> track, disk |-> d]

\* lines 104-150
save_midi(midi_data, tempo, fault, written, d) ==
  IF NoMidiData(midi_data)
  THEN SaveOutcome("ValueError", "No MIDI data provided", "none",
                   <<>>, <<>>, d)
  ELSE
  LET notes == AddNotes(midi_data)
      build == BuildCalls(Len(notes))
  IN
  IF \E i \in 1..Len(build) : build[i] = fault
  THEN \* lines 109-137 are outside any try: the exception propagates
       LET k == FirstIndex(build, fault) IN
       SaveOutcome("Unwrapped", fault, fault, SubSeq(build, 1, k), <<>>, d)
  ELSE
  LET md == MakeDirs(d, fault) IN
  IF md.raised
  THEN \* line 140 is outside the try as well
       SaveOutcome("Unwrapped", "makedirs", "makedirs",
                   Append(build, "makedirs"), notes, md.disk)
  ELSE
  LET op == OpenWB(md.disk, fault) IN
  IF op.raised
  THEN \* lines 144-148
       SaveOutcome("RuntimeError", "Error saving MIDI file", "open",
                   build \o <<"makedirs", "open">>, notes, op.disk)
  ELSE
  LET wf == WriteFile(op.disk, Header(tempo) \o notes, fault, written) IN
  IF wf.raised
  THEN SaveOutcome("RuntimeError", "Error saving MIDI file", "writeFile",
                   build \o <<"makedirs", "open", "writeFile">>, notes,
                   wf.disk)
  ELSE SaveOutcome("ok", "", "none",
                   build \o <<"makedirs", "open", "writeFile">>, notes,
                   wf.disk)

NoSave ==
  [midi_data |-> <<>>, tempo |-> TempoDefault, fault |-> "none",
   status |-> "none", error |-> "", raisedBy |-> "none",
   calls |-> <<>>, track |-> <<>>]

NoPrev == [status |-> "none", fault |-> "none"]

Execute(midi_data, tempo, fault, written) ==
  LET r == save_midi(midi_data, tempo, fault, written, disk) IN
  /\ save' = [midi_data |-> midi_data, tempo |-> tempo, fault |-> fault,
              status |-> r.status, error |-> r.error,
              raisedBy |-> r.raisedBy, calls |-> r.calls,
              track |-> r.track]
  /\ disk' = r.disk
  /\ diskBefore' = disk
  /\ prev' = [status |-> save.status, fault |-> save.fault]
  /\ nCalls' = nCalls + 1
  /\ UNCHANGED conv

WrittenChoices(fault) ==
  IF fault = "writeFile" THEN 0..MaxEntries ELSE {0}

\* The host executes the SaveMidi node for the first time.
SaveMidi ==
  /\ nCalls = 0
  /\ \E midi_data \in MidiLists, tempo \in Tempos, fault \in Faults :
       \E written \in WrittenChoices(fault) :
         Execute(midi_data, tempo, fault, written)

\* The host executes the node again with identical arguments.
SaveMidiAgain ==
  /\ nCalls > 0
  /\ nCalls < MaxCalls
  /\ \E fault \in Faults :
       \E written \in WrittenChoices(fault) :
         Execute(save.midi_data, save.tempo, fault, written)

\* =================================================================
\* Specifications
\* =================================================================
InitConverter ==
  /\ conv = NoConv
  /\ disk = [dir |-> "absent", target |-> "absent", content |-> <<>>]
  /\ diskBefore = disk
  /\ save = NoSave
  /\ prev = NoPrev
  /\ nCalls = 0

Init ==
  /\ conv = NoConv
  /\ disk \in DiskStates
  /\ diskBefore = disk
  /\ save = NoSave
  /\ prev = NoPrev
  /\ nCalls = 0

NextConverter == ConvertAudioToMidi

NextWriter == SaveMidi \/ SaveMidiAgain

SpecConverter == InitConverter /\ [][NextConverter]_vars

SpecWriter == Init /\ [][NextWriter]_vars

\* =================================================================
\* Properties
\* =================================================================

\* n is the integer obtained from v by dropping its fractional part
IsTruncOf(n, v) ==
  /\ n % 2 = 0
  /\ v >= 0 => (n <= v /\ v < n + 2)
  /\ v < 0 => (n >= v /\ v > n - 2)

InMidiRange(n) == n % 2 = 0 /\ Py(0) <= n /\ n <= Py(127)

\* the notes of the model's output in the order the model returned them
RECURSIVE RawNotes(_)
RawNotes(instruments) ==
  IF instruments = <<>> THEN <<>>
  ELSE Head(instruments) \o RawNotes(Tail(instruments))

WithStart(s, t) == LET Test(e) == e[2] = t IN SelectSeq(s, Test)

\* C1: on success the list returned by convert_audio_to_midi is sorted
\* non-decreasing by start_time (second field).
C1_SortedByStart ==
  conv.status = "ok" =>
    \A i \in 1..(Len(conv.value) - 1) : conv.value[i][2] <= conv.value[i + 1][2]

\* the model returned notes out of start order and the call succeeded
C1_Witness ==
  /\ conv.status = "ok"
  /\ Len(conv.value) >= 3
  /\ LET raw == RawNotes(conv.instruments)
     IN \E i \in 1..(Len(raw) - 1) : raw[i].start > raw[i + 1].start

\* C2: on a path that does not exist the call ends in the validation error
\* (ValueError "Audio file not found") and predict was not called.
C2_MissingPathValidation ==
  (conv.status # "none" /\ ~conv.audio_exists) =>
    /\ conv.status = "ValueError"
    /\ conv.error = "Audio file not found"
    /\ conv.calls = <<>>

C2_Witness == conv.status = "ValueError" /\ ~conv.audio_exists

\* C9 as stated: every returned NoteEvent has pitch and velocity in [0,127].
C9_Original ==
  conv.status = "ok" =>
    \A i \in 1..Len(conv.value) :
      InMidiRange(conv.value[i][1]) /\ InMidiRange(conv.value[i][4])

\* C9 amended: every returned NoteEvent carries the pitch and velocity of a
\* note of the model truncated to integers, and its start and end unchanged;
\* nothing is clamped, so pitch and velocity are in [0,127] exactly when the
\* model's truncated values are.
C9_CoercedNotClamped ==
  conv.status = "ok" =>
    \A i \in 1..Len(conv.value) :
      \E note \in { RawNotes(conv.instruments)[k] :
                      k \in 1..Len(RawNotes(conv.instruments)) } :
        /\ IsTruncOf(conv.value[i][1], note.pitch)
        /\ IsTruncOf(conv.value[i][4], note.velocity)
        /\ conv.value[i][2] = note.start
        /\ conv.value[i][3] = note.end

\* a pitch above 127 and a negative fractional pitch were both returned
C9_Witness ==
  /\ conv.status = "ok"
  /\ \E i \in 1..Len(conv.value) : conv.value[i][1] > Py(127)
  /\ \E k \in 1..Len(RawNotes(conv.instruments)) :
       RawNotes(conv.instruments)[k].pitch < 0

\* C10: on success the returned list has one 4-field NoteEvent per note of
\* every instrument, and for each start time the events with that start
\* appear in the order the model returned them (the sort is stable).
C10_OnePerNoteStable ==
  conv.status = "ok" =>
    LET raw == RawNotes(conv.instruments)
        flat == [k \in 1..Len(raw) |-> NoteEvent(raw[k])]
    IN /\ Len(conv.value) = Len(raw)
       /\ \A i \in 1..Len(conv.value) : Len(conv.value[i]) = 4
       /\ \A k \in 1..Len(raw) :
            WithStart(conv.value, raw[k].start) = WithStart(flat, raw[k].start)

\* two different notes with the same start, the later-returned one in an
\* earlier position of the unsorted list than a note the sort had to move
C10_Witness ==
  /\ conv.status = "ok"
  /\ Len(conv.instruments) = 2
  /\ LET raw == RawNotes(conv.instruments)
     IN /\ \E i \in 1..Len(raw) : \E j \in (i + 1)..Len(raw) :
             raw[i].start = raw[j].start /\ raw[i] # raw[j]
        /\ \E i \in 1..(Len(raw) - 1) : raw[i].start > raw[i + 1].start

\* the entries of the last call's note list that have exactly 4 fields
WellFormedEntries ==
  LET Test(e) == Len(e) = 4 IN SelectSeq(save.midi_data, Test)

LoopCompleted == \E i \in 1..Len(save.calls) : save.calls[i] = "makedirs"

\* C3: save_midi on an empty list ends in the validation error, made no
\* external call and left the disk as it was.
C3_EmptyListValidation ==
  (save.status # "none" /\ save.midi_data = <<>>) =>
    /\ save.status = "ValueError"
    /\ save.calls = <<>>
    /\ disk = diskBefore

C3_Witness ==
  /\ save.status = "ValueError"
  /\ save.midi_data = <<>>
  /\ diskBefore.dir = "absent"

\* C4 as stated: every exception raised by an external collaborator reaches
\* the host as the generic runtime failure.
C4_Original ==
  /\ (conv.status # "none" /\ conv.audio_exists /\ conv.raised)
       => conv.status = "RuntimeError"
  /\ save.raisedBy # "none" => save.status = "RuntimeError"

\* C5 as stated: whenever save_midi ends in a failure the disk is as it was
\* before the call.
C5_Original ==
  save.status \in {"ValueError", "RuntimeError", "Unwrapped"} =>
    disk = diskBefore

\* C6: the pitch and volume of every addNote call lie in [0,127] and equal
\* the entry's value truncated to an integer and clamped.
C6_Clamped ==
  \A i \in 1..Len(save.track) :
    LET e == WellFormedEntries[i]
        Ok(out, in) ==
          /\ InMidiRange(out)
          /\ in >= Py(128) => out = Py(127)
          /\ in <= Py(0 - 1) => out = Py(0)
          /\ (in < Py(128) /\ in > Py(0 - 1)) => IsTruncOf(out, in)
    IN Ok(save.track[i].pitch, e[1]) /\ Ok(save.track[i].volume, e[4])

\* pitch 200 was clamped to 127 and a negative velocity to 0
C6_Witness ==
  \E i \in 1..Len(save.track) :
    /\ WellFormedEntries[i][1] = Py(200)
    /\ save.track[i].pitch = Py(127)
    /\ WellFormedEntries[i][4] < 0
    /\ save.track[i].volume = 0

\* C7: once the loop is through, exactly one note was added per 4-field
\* entry, in input order, with the entry's start and duration; a successful
\* call wrote the header and those notes; and a non-empty list of malformed
\* entries only, with no external failure, ends in success with a file
\* holding zero notes.
C7_SkipMalformed ==
  /\ LoopCompleted =>
       /\ Len(save.track) = Len(WellFormedEntries)
       /\ \A i \in 1..Len(save.track) :
            /\ save.track[i].time = WellFormedEntries[i][2]
            /\ save.track[i].duration =
                 WellFormedEntries[i][3] - WellFormedEntries[i][2]
  /\ save.status = "ok" =>
       /\ Len(disk.content) = 2 + Len(WellFormedEntries)
       /\ \A i \in 1..Len(save.track) : disk.content[2 + i] = save.track[i]
  /\ ( /\ save.status # "none"
       /\ save.midi_data # <<>>
       /\ WellFormedEntries = <<>>
       /\ save.fault = "none"
       /\ diskBefore.dir # "file"
       /\ diskBefore.target # "dir" ) =>
       /\ save.status = "ok"
       /\ disk.target = "file"
       /\ \A i \in 1..Len(disk.content) : disk.content[i].kind # "note"

\* a list made of one 3-field tuple was saved
C7_Witness ==
  /\ save.status = "ok"
  /\ Len(save.midi_data) = 1
  /\ Len(save.midi_data[1]) = 3
  /\ save.track = <<>>
  /\ disk.target = "file"

\* C8: a second call with identical arguments, neither call hit by an
\* external fault, ends as the first did and leaves the disk exactly as the
\* first left it; after a successful call a fault-free repeat succeeds.
C8_Idempotent ==
  /\ (nCalls >= 2 /\ save.fault = "none" /\ prev.fault = "none") =>
       /\ save.status = prev.status
       /\ disk = diskBefore
  /\ (nCalls >= 2 /\ save.fault = "none" /\ prev.status = "ok") =>
       /\ save.status = "ok"
       /\ disk = diskBefore

\* the second of two successful calls overwrote a file holding notes
C8_Witness ==
  /\ nCalls >= 2
  /\ save.fault = "none"
  /\ prev.fault = "none"
  /\ save.status = "ok"
  /\ Len(save.track) > 0
  /\ diskBefore.target = "file"

====
